---- MODULE Spec2Model ----
(***************************************************************************)
(* Model of the saved-search pipeline of market_searchtool:                *)
(*   - the SQLite store of core/database.py (saved_searches,               *)
(*     saved_search_items, new_items and their sqlite_sequence counters),  *)
(*   - the polling cycle of core/background_tasks.py                       *)
(*     (BackgroundTaskManager._run_saved_searches),                        *)
(*   - the external scraper command as an environment.                     *)
(***************************************************************************)
EXTENDS Integers, Sequences, FiniteSets, TLC

\* ------------------------------------------------------------------ bounds
MaxSearches == 2      \* saved searches created before the id counter is reset
MaxBatch == 1         \* longest item list passed to one call / one scrape
MaxFeed == 2          \* rows new_items may hold before add_new_items is cut off
MaxThreads == 2       \* poll-loop threads start() creates
MaxCallers == 2       \* threads that call start() and stop()
MaxTime == 310        \* seconds the clock of one poll loop is followed for
MaxRaceTime == 6      \* the same while several threads call start() and stop()
MaxResults == 2       \* longest search_results list handed to the notifier
MaxDbThreads == 6     \* threads that perform storage operations
MaxItems == 2         \* longest item list passed to add_saved_search_items
MaxCopies == 2        \* baseline rows that agree in every column but id
MaxFiles == 5         \* files the image cache directory holds
MaxFileSize == 3      \* largest cached image, in units of 50 MB

\* ------------------------------------------------------------ input values
NULL == "NULL"

Listing(t, u) ==
    [title |-> t, price_value |-> 100, price_formatted |-> "Y100",
     url |-> u, site |-> "yahoo"]

\* two listings that agree on (title, price_value) and differ in url, and a
\* third with its own title
Listings == {Listing("t1", "u1"), Listing("t1", "u2"), Listing("t2", "u3")}

Batches == UNION {[1..n -> Listings] : n \in 0..MaxBatch}

\* price_value None in an item dict, NULL in the column price_value REAL
NullPrice == -1

\* items for the baseline: the listings, and one whose price_value is None
BaselineListings ==
    Listings \cup {[Listing("t3", "u4") EXCEPT !.price_value = NullPrice]}

BaselineBatches == UNION {[1..n -> BaselineListings] : n \in 0..MaxItems}

SearchIds == 1..MaxSearches

Threads == 1..MaxThreads
DbThreads == 1..MaxDbThreads
Callers == 1..MaxCallers

\* options as save_current_search stores them: it refuses empty keywords and
\* an empty site selection
GuiOptions ==
    [keywords |-> <<"k">>, sites |-> <<"yahoo">>, min_price |-> "", max_price |-> ""]

\* options a caller of create_saved_search can pass
OptionsInputs == {GuiOptions, [GuiOptions EXCEPT !.keywords = <<>>]}

NameInputs == {"A"}

GetNewItemsLimits == {1, 10}

\* ------------------------------------------------------------------- state
VARIABLES
    saved_searches,      \* table saved_searches: set of rows
    seq_saved_searches,  \* sqlite_sequence entry of saved_searches
    saved_search_items,  \* table saved_search_items (baseline): set of rows
    new_items,           \* table new_items (feed): rows in rowid order
    seq_new_items,       \* sqlite_sequence entry of new_items
    foreign_keys,        \* PRAGMA foreign_keys of the connections
    last,                \* the last store call: [op, sid, n, ret], n = len(items)
    pc,                  \* poll cycle: "idle" or "loop"
    active,              \* active_searches of the cycle in progress / last run
    idx,                 \* position of the for loop in active
    invoked,             \* per search id: subprocess.run calls in this cycle
    total,               \* total_items_added_to_feed_this_cycle
    scraper,             \* what the scraper command answers when it is run
    prev,                \* per search id: the item list of its last scrape
    running,             \* BackgroundTaskManager.running
    notified,            \* calls of the notification sink made by this cycle
    due,                 \* searches of this cycle that were due a result: enabled,
                         \* with keywords and sites, the scraper exiting 0
    stop_idx,            \* position of the for loop when stop() was called, else 0
    thread,              \* BackgroundTaskManager.thread: the Thread last created
    tpc,                 \* per poll-loop thread: its position in _run_periodic_tasks
    cpc,                 \* per caller thread: its position in start() or stop()
    now,                 \* the clock, in seconds
    last_search_time,    \* BackgroundTaskManager.last_search_time
    current_time,        \* per poll-loop thread: its local current_time
    started,             \* per poll-loop thread: when its latest cycle started
    search_results,      \* argument of notify_scraper_results
    total_new_items,     \* argument of notify_scraper_results
    backend,             \* whether plyer's notification.notify works or raises
    sent,                \* the notification the backend was handed, if any
    notify_ret,          \* how notify_scraper_results ended
    logged,              \* the level of the record it logged
    connections,         \* ConnectionPool.connections: how many the queue holds
    thread_local,        \* per thread: thread_local has the attribute connection
    opc,                 \* per thread: where it is in a storage operation
    saved_search_id,     \* save_current_search: what create_saved_search returned
    messagebox,          \* save_current_search: the message box it showed
    cache_files,         \* sizes of the *.png files of cache_dir, oldest first
    total_size,          \* total_size as the last _cleanup_cache summed it
    cleanup_log          \* level of the record the last _cleanup_cache logged

storeVars == <<saved_searches, seq_saved_searches, saved_search_items,
               new_items, seq_new_items, foreign_keys>>
loopVars == <<thread, tpc, cpc, now, last_search_time, current_time, started>>
pollVars == <<pc, active, idx, invoked, total, prev, notified, due, stop_idx>>
sinkVars == <<search_results, total_new_items, backend, sent, notify_ret, logged>>
poolVars == <<connections, thread_local, opc>>
guiVars == <<saved_search_id, messagebox>>
cacheVars == <<cache_files, total_size, cleanup_log>>
otherVars == <<poolVars, guiVars, cacheVars>>
cycleVars == <<pc, active, idx, invoked, total, prev, running, notified, due,
               stop_idx, loopVars, sinkVars, otherVars>>
vars == <<saved_searches, seq_saved_searches, saved_search_items, new_items,
          seq_new_items, foreign_keys, last, pc, active, idx, invoked, total,
          scraper, prev, running, notified, due, stop_idx, loopVars, sinkVars,
          otherVars>>

\* ----------------------------------------------------------------- helpers
json_dumps(o) == [json |-> o]
json_loads(j) == j.json

Call(op, sid, n, ret) == [op |-> op, sid |-> sid, n |-> n, ret |-> ret]

RECURSIVE SetToSeqById(_)
\* rows of a table in rowid order
SetToSeqById(S) ==
    IF S = {} THEN <<>>
    ELSE LET r == CHOOSE x \in S : \A y \in S : x.id <= y.id
         IN  <<r>> \o SetToSeqById(S \ {r})

\* ------------------------------------------- contents of a database file
\* sites and names of the rows a database file holds
StoredSites == {"yahoo", "mercari"}
StoredNames == {"A", "B"}

\* a row of new_items as the schema stores it
StoredFeedRow(id, sid, site, at, viewed) ==
    [id |-> id, saved_search_id |-> sid, title |-> "t1", price_value |-> 100,
     url |-> "u1", site |-> site, found_at |-> at, is_viewed |-> viewed]

\* the site of the stored row with a given rowid
StoredSite(id) == IF id % 2 = 1 THEN "yahoo" ELSE "mercari"

\* contents of new_items: ids are the AUTOINCREMENT rowids, found_at the
\* CURRENT_TIMESTAMP of the insert; saved searches are numbered in the order
\* their first row was stored
StoredFeeds ==
    UNION {
      {f \in [1..n -> {StoredFeedRow(i, sid, StoredSite(i), at, v) :
                          i \in 1..n, sid \in SearchIds, at \in 0..1, v \in BOOLEAN}] :
          /\ \A i \in 1..n : f[i].id = i /\ f[i].saved_search_id <= i
          /\ \A i \in 1..(n - 1) : f[i].found_at <= f[i + 1].found_at}
      : n \in 0..MaxFeed}

\* contents of saved_searches: one row per id, the first one named "A"
StoredSearches ==
    {S \in SUBSET {[id |-> i, options_json |-> json_dumps(GuiOptions), name |-> nm,
                    notifications_enabled |-> FALSE] :
                      i \in SearchIds, nm \in StoredNames} :
        /\ \A i \in SearchIds : \E x \in S : x.id = i
        /\ \A x, y \in S : x.id = y.id => x = y
        /\ \A x \in S : x.id = 1 => x.name = "A"}

\* --------------------------------------------------- store: pure operators

\* DatabaseManager.create_saved_search: the row an INSERT adds; id is the
\* AUTOINCREMENT rowid, notifications_enabled takes its DEFAULT 0
NewSavedSearchRow(options, name) ==
    [id |-> seq_saved_searches + 1,
     options_json |-> json_dumps(options),
     name |-> name,
     notifications_enabled |-> FALSE]

\* a get_saved_searches that adds 'options' and leaves options_json in the dict
get_saved_searches_keeping_json ==
    LET dict(row) == [id |-> row.id, name |-> row.name,
                      notifications_enabled |-> row.notifications_enabled,
                      options_json |-> row.options_json,
                      options |-> json_loads(row.options_json)]
        rows == SetToSeqById(saved_searches)
    IN  [i \in 1..Len(rows) |-> dict(rows[i])]

\* DatabaseManager.get_saved_searches: dict(row) with options_json parsed into
\* 'options' and the options_json key deleted; no ORDER BY is emitted because
\* QueryBuilder.add_order_by accepts no column named created_at
get_saved_searches ==
    LET dict(row) == [id |-> row.id, name |-> row.name,
                      notifications_enabled |-> row.notifications_enabled,
                      options |-> json_loads(row.options_json)]
        rows == SetToSeqById(saved_searches)
    IN  [i \in 1..Len(rows) |-> dict(rows[i])]

\* UNIQUE(saved_search_id, title, price_value) of saved_search_items: SQLite
\* takes two NULLs of a UNIQUE column as different values
BaselineConflict(rows, r) ==
    \E x \in rows : /\ x.saved_search_id = r.saved_search_id
                    /\ x.title = r.title
                    /\ x.price_value = r.price_value
                    /\ r.price_value # NullPrice

\* rows of the table that agree with r in every column but id
CopiesOf(rows, r) ==
    {x \in rows : [c \in DOMAIN r |-> x[c]] = r}

RECURSIVE InsertOrIgnoreAll(_, _, _)
\* executemany("INSERT OR IGNORE INTO saved_search_items ...", values); copy
\* tells rows apart that differ in their id only
InsertOrIgnoreAll(rows, sid, items) ==
    IF items = <<>> THEN rows
    ELSE LET it == Head(items)
             r  == [saved_search_id |-> sid, title |-> it.title,
                    price_value |-> it.price_value, url |-> it.url,
                    site |-> it.site]
             row == [saved_search_id |-> sid, title |-> it.title,
                     price_value |-> it.price_value, url |-> it.url,
                     site |-> it.site, copy |-> Cardinality(CopiesOf(rows, r))]
         IN  InsertOrIgnoreAll(IF BaselineConflict(rows, r) THEN rows ELSE rows \cup {row},
                               sid, Tail(items))

\* columns named by the INSERT INTO new_items statement and the values it binds
InsertNewItemsColumns == 13
InsertNewItemsPlaceholders == 12

\* dict keys add_new_items reads with item[...] (a missing one raises KeyError)
WellFormed(item) ==
    {"title", "price_value", "price_formatted", "url", "site"} \subseteq DOMAIN item

\* found_at DEFAULT CURRENT_TIMESTAMP: the second of the insert, which is not
\* before the newest row's; all rows of one executemany share it here
FoundAtChoices(feed) ==
    IF feed = <<>> THEN {0}
    ELSE {feed[Len(feed)].found_at, feed[Len(feed)].found_at + 1}

NewItemRows(sid, items, firstId, at) ==
    [i \in 1..Len(items) |->
        [id |-> firstId + i - 1, saved_search_id |-> sid,
         title |-> items[i].title, price_value |-> items[i].price_value,
         url |-> items[i].url, site |-> items[i].site,
         found_at |-> at, is_viewed |-> FALSE]]

\* an executemany that binds the rows without SQLite comparing the number of
\* values with the column list
ExecuteManyUnchecked(feed, sid, items, at) ==
    [ok |-> TRUE, rows |-> feed \o NewItemRows(sid, items, seq_new_items + 1, at)]

\* executemany("INSERT INTO new_items (...13 columns...) VALUES (...12 ?...)"):
\* SQLite refuses the statement when the counts differ
ExecuteManyNewItems(feed, sid, items, at) ==
    IF InsertNewItemsPlaceholders # InsertNewItemsColumns
    THEN [ok |-> FALSE, rows |-> feed]
    ELSE [ok |-> TRUE, rows |-> feed \o NewItemRows(sid, items, seq_new_items + 1, at)]

\* DatabaseManager.add_new_items: the feed after the call and the count returned
add_new_items(sid, items, at) ==
    IF items = <<>> THEN [rows |-> new_items, ret |-> 0]
    ELSE IF \E i \in 1..Len(items) : ~WellFormed(items[i])
         THEN [rows |-> new_items, ret |-> 0]            \* KeyError, rollback
    ELSE LET r == ExecuteManyNewItems(new_items, sid, items, at)
         IN  IF r.ok THEN [rows |-> r.rows, ret |-> Len(items)]
             ELSE [rows |-> new_items, ret |-> 0]        \* except: rollback, return 0

\* name column as get_new_items selects it:
\* COALESCE(s.name, 'Unnamed Search ' || s.id)
SearchName(s) == IF s.name = NULL THEN <<"Unnamed Search", s.id>> ELSE s.name

\* indices of the unviewed feed rows of one saved search
UnviewedOf(sid) ==
    {i \in 1..Len(new_items) :
        new_items[i].saved_search_id = sid /\ ~new_items[i].is_viewed}

\* SELECT * FROM new_items WHERE saved_search_id = ? AND is_viewed = 0
\* ORDER BY found_at DESC LIMIT limit OFFSET 0: every order of the rows that
\* respects found_at (rows of one second come in any order), cut to limit
ItemsOfSearch(sid, limit) ==
    LET I == UnviewedOf(sid)
        n == Cardinality(I)
        orders == {p \in [1..n -> I] :
                     /\ \A a, b \in 1..n : a # b => p[a] # p[b]
                     /\ \A a, b \in 1..n :
                          a < b => new_items[p[a]].found_at >= new_items[p[b]].found_at}
        m == IF limit < n THEN limit ELSE n
    IN  {[k \in 1..m |-> new_items[p[k]]] : p \in orders}

\* DatabaseManager.get_new_items(limit): the dicts it can return. The first
\* query joins new_items with saved_searches; result[search_name] is assigned
\* once per (saved_search_id, search_name) pair, so of two searches with one
\* name the pair iterated last stays
get_new_items(limit) ==
    LET pairs == {<<s.id, SearchName(s)>> : s \in
                    {x \in saved_searches : UnviewedOf(x.id) # {}}}
        names == {p[2] : p \in pairs}
        owners == {f \in [names -> {p[1] : p \in pairs}] :
                     \A nm \in names : <<f[nm], nm>> \in pairs}
    IN  UNION {
          {r \in [names -> UNION {ItemsOfSearch(f[nm], limit) : nm \in names}] :
              \A nm \in names : r[nm] \in ItemsOfSearch(f[nm], limit)}
          : f \in owners}

\* rows of a get_new_items result
ReturnedItems(result) ==
    UNION {{result[nm][k] : k \in 1..Len(result[nm])} : nm \in DOMAIN result}

\* the clauses of a statement built by QueryBuilder, in order. base_query is
\* given as its own clause list; build() appends " WHERE " and the conditions
\* when add_where was called, then the ORDER BY and the LIMIT/OFFSET it holds
QueryBuilderBuild(base_query, where_clauses, order_by, limit) ==
    base_query
      \o (IF where_clauses # <<>> THEN <<"WHERE">> ELSE <<>>)
      \o (IF order_by # NULL THEN <<"ORDER BY">> ELSE <<>>)
      \o (IF limit # NULL THEN <<"LIMIT", "OFFSET">> ELSE <<>>)

\* QueryBuilder.add_order_by: a column outside its list leaves order_by unset
AddOrderBy(column) ==
    IF column \in {"price_value", "found_at", "title", "site"} THEN column ELSE NULL

\* conn.execute(sql): SQLite's SELECT takes one WHERE clause; a second one is
\* a syntax error (sqlite3.OperationalError)
SqlAccepted(query) ==
    Cardinality({i \in 1..Len(query) : query[i] = "WHERE"}) <= 1

\* the two statements of get_new_items for a site argument (None: NULL)
FirstQuery(site) ==
    QueryBuilderBuild(<<"SELECT DISTINCT", "FROM", "JOIN", "WHERE">>,
                      IF site # NULL THEN <<"n.site = ?">> ELSE <<>>, NULL, NULL)

ItemsQuery(site) ==
    QueryBuilderBuild(<<"SELECT", "FROM", "WHERE">>,
                      IF site # NULL THEN <<"site = ?">> ELSE <<>>,
                      AddOrderBy("found_at"), 0)

\* indices of the unviewed feed rows of one saved search on one site
UnviewedOfSite(sid, site) ==
    {i \in UnviewedOf(sid) : new_items[i].site = site}

\* the rows the second statement selects with the condition site = ?
ItemsOfSearchSite(sid, site, limit) ==
    LET I == UnviewedOfSite(sid, site)
        n == Cardinality(I)
        orders == {p \in [1..n -> I] :
                     /\ \A a, b \in 1..n : a # b => p[a] # p[b]
                     /\ \A a, b \in 1..n :
                          a < b => new_items[p[a]].found_at >= new_items[p[b]].found_at}
        m == IF limit < n THEN limit ELSE n
    IN  {[k \in 1..m |-> new_items[p[k]]] : p \in orders}

OperationalError == [raised |-> "sqlite3.OperationalError"]

\* DatabaseManager.get_new_items(limit, 0, site) with a site given: what the
\* call can yield, the exception of the first execute included (the method has
\* no except clause, only finally)
get_new_items_site(limit, site) ==
    IF ~SqlAccepted(FirstQuery(site)) THEN {OperationalError}
    ELSE
      LET pairs == {<<s.id, SearchName(s)>> : s \in
                      {x \in saved_searches : UnviewedOfSite(x.id, site) # {}}}
          names == {p[2] : p \in pairs}
          owners == {f \in [names -> {p[1] : p \in pairs}] :
                       \A nm \in names : <<f[nm], nm>> \in pairs}
      IN  IF pairs # {} /\ ~SqlAccepted(ItemsQuery(site)) THEN {OperationalError}
          ELSE UNION {
                 {r \in [names -> UNION {ItemsOfSearchSite(f[nm], site, limit) : nm \in names}] :
                     \A nm \in names : r[nm] \in ItemsOfSearchSite(f[nm], site, limit)}
                 : f \in owners}

\* an UPDATE new_items SET is_viewed = 1 that has lost its WHERE clause
mark_items_as_viewed_all(feed, item_ids) ==
    [i \in 1..Len(feed) |-> [feed[i] EXCEPT !.is_viewed = TRUE]]

\* mark_items_as_viewed(item_ids): UPDATE new_items SET is_viewed = 1
\* WHERE id IN (...); an empty list returns before any statement
mark_items_as_viewed(feed, item_ids) ==
    [i \in 1..Len(feed) |->
        IF item_ids # {} /\ feed[i].id \in item_ids
        THEN [feed[i] EXCEPT !.is_viewed = TRUE]
        ELSE feed[i]]

\* ----------------------------------------------------------- store actions

\* create_saved_search(options, name)
CreateSavedSearch(options) ==
    /\ seq_saved_searches < MaxSearches
    /\ \E name \in NameInputs :
         /\ saved_searches' = saved_searches \cup {NewSavedSearchRow(options, name)}
         /\ seq_saved_searches' = seq_saved_searches + 1
         /\ last' = Call("create_saved_search", seq_saved_searches + 1, 0,
                         seq_saved_searches + 1)
    /\ UNCHANGED <<saved_search_items, new_items, seq_new_items, foreign_keys,
                   cycleVars, scraper>>

\* update_saved_search_notifications(saved_search_id, enabled)
UpdateSavedSearchNotifications ==
    /\ \E sid \in SearchIds, enabled \in BOOLEAN :
         /\ saved_searches' =
              {IF s.id = sid THEN [s EXCEPT !.notifications_enabled = enabled] ELSE s
                 : s \in saved_searches}
         /\ last' = Call("update_saved_search_notifications", sid, 0, TRUE)
    /\ UNCHANGED <<seq_saved_searches, saved_search_items, new_items, seq_new_items,
                   foreign_keys, cycleVars, scraper>>

\* add_saved_search_items(saved_search_id, items) with a list of batches:
\* returns len(values)
AddSavedSearchItemsFrom(batches) ==
    /\ \E sid \in SearchIds, items \in batches :
         /\ saved_search_items' = InsertOrIgnoreAll(saved_search_items, sid, items)
         /\ \A r \in saved_search_items' : r.copy < MaxCopies
         /\ last' = Call("add_saved_search_items", sid, Len(items), Len(items))
    /\ UNCHANGED <<saved_searches, seq_saved_searches, new_items, seq_new_items,
                   foreign_keys, cycleVars, scraper>>

\* add_saved_search_items(saved_search_id, items)
AddSavedSearchItems == AddSavedSearchItemsFrom(Batches)

\* delete_saved_search(saved_search_id): DELETE FROM saved_searches WHERE id = ?;
\* the ON DELETE CASCADE clauses act only on a connection with foreign_keys on
DeleteSavedSearch ==
    /\ \E sid \in SearchIds :
         /\ saved_searches' = {s \in saved_searches : s.id # sid}
         /\ saved_search_items' =
              IF foreign_keys
              THEN {r \in saved_search_items : r.saved_search_id # sid}
              ELSE saved_search_items
         /\ new_items' =
              IF foreign_keys
              THEN SelectSeq(new_items, LAMBDA r : r.saved_search_id # sid)
              ELSE new_items
         /\ last' = Call("delete_saved_search", sid, 0, TRUE)
    /\ UNCHANGED <<seq_saved_searches, seq_new_items, foreign_keys, cycleVars, scraper>>

\* add_new_items(saved_search_id, items) called on the store
AddNewItems ==
    /\ Len(new_items) < MaxFeed
    /\ \E sid \in SearchIds, items \in Batches, at \in FoundAtChoices(new_items) :
         LET r == add_new_items(sid, items, at)
         IN  /\ new_items' = r.rows
             /\ seq_new_items' = seq_new_items + (Len(r.rows) - Len(new_items))
             /\ last' = Call("add_new_items", sid, Len(items), r.ret)
    /\ UNCHANGED <<saved_searches, seq_saved_searches, saved_search_items,
                   foreign_keys, cycleVars, scraper>>

\* get_new_items(limit)
GetNewItems ==
    /\ \E limit \in GetNewItemsLimits :
         \E result \in get_new_items(limit) :
            last' = Call("get_new_items", 0, limit, result)
    /\ UNCHANGED <<storeVars, cycleVars, scraper>>

\* get_new_items(limit, 0, site) with a site given
GetNewItemsSite ==
    /\ \E limit \in GetNewItemsLimits, site \in StoredSites :
         \E result \in get_new_items_site(limit, site) :
            last' = Call("get_new_items_site", site, limit, result)
    /\ UNCHANGED <<storeVars, cycleVars, scraper>>

\* mark_items_as_viewed(item_ids)
MarkItemsAsViewed ==
    /\ \E ids \in SUBSET (1..MaxFeed) :
         /\ new_items' = mark_items_as_viewed(new_items, ids)
         /\ last' = Call("mark_items_as_viewed", 0, ids, NULL)
    /\ UNCHANGED <<saved_searches, seq_saved_searches, saved_search_items,
                   seq_new_items, foreign_keys, cycleVars, scraper>>

\* clear_all_tables(): every table emptied, every sqlite_sequence entry removed;
\* "PRAGMA foreign_keys = ON" runs inside the transaction the DELETEs opened,
\* where SQLite ignores it, so the connection keeps its setting
ClearAllTables ==
    /\ saved_searches' = {}
    /\ seq_saved_searches' = 0
    /\ saved_search_items' = {}
    /\ new_items' = <<>>
    /\ seq_new_items' = 0
    /\ last' = Call("clear_all_tables", 0, 0, NULL)
    /\ UNCHANGED <<foreign_keys, cycleVars, scraper>>

\* ------------------------------------------------------- the image cache

\* max_size_mb * 1024 * 1024 with the default max_size_mb = 500, counted in
\* units of 50 MB
max_size_bytes == 10

FileSizes == 1..MaxFileSize

RECURSIVE SumOfSizes(_)
\* sum(f.stat().st_size for f in self.cache_dir.glob("*.png"))
SumOfSizes(files) ==
    IF files = <<>> THEN 0 ELSE Head(files) + SumOfSizes(Tail(files))

\* the for loop of lines 145-149 on files sorted oldest first: file.unlink()
\* removes the first file, then file.stat() on the removed path raises
\* FileNotFoundError, which leaves the loop for the except of lines 153-154
UnlinkThenStat(files) ==
    [files |-> Tail(files), raised |-> "FileNotFoundError"]

\* ImageCache._cleanup_cache on the directory holding files
CleanupCache(files) ==
    LET summed == SumOfSizes(files)
    IN  IF summed > max_size_bytes
        THEN [files |-> UnlinkThenStat(files).files, total_size |-> summed,
              logged |-> "error"]
        ELSE [files |-> files, total_size |-> summed, logged |-> "none"]

\* _download_and_process_image(image_url) for an image not yet cached whose
\* download succeeds: the processed image is saved as the newest file, then
\* _cleanup_cache runs
DownloadAndProcessImage ==
    /\ Len(cache_files) < MaxFiles
    /\ \E size \in FileSizes :
         LET r == CleanupCache(Append(cache_files, size))
         IN  /\ cache_files' = r.files
             /\ total_size' = r.total_size
             /\ cleanup_log' = r.logged
    /\ UNCHANGED <<storeVars, last, scraper, pollVars, running, loopVars, sinkVars,
                   poolVars, guiVars>>

\* os.remove(cached_path) of delete_saved_search, lines 721-723, for one cached
\* image of the deleted search's items
RemoveCachedImage ==
    /\ \E i \in 1..Len(cache_files) :
         cache_files' = SubSeq(cache_files, 1, i - 1) \o
                        SubSeq(cache_files, i + 1, Len(cache_files))
    /\ UNCHANGED <<storeVars, last, scraper, pollVars, running, loopVars, sinkVars,
                   poolVars, guiVars, total_size, cleanup_log>>

\* ------------------------------------------------ the GUI's save handler

\* what create_saved_search returns from its except branch
CreateFailed == -1

\* Python's truth value of an int, as "if saved_search_id:" takes it
Truthy(n) == n # 0

\* SearchTab.save_current_search once keywords, sites and a name are given:
\* create_saved_search(options, name), which adds the row or fails and returns
\* -1; then, saved_search_id being true, get_search_results for the query and,
\* when it returned items, add_saved_search_items(saved_search_id, all_items),
\* which adds the rows or fails and returns 0; then the message box
SaveCurrentSearch ==
    \E name \in NameInputs, all_items \in Batches, created \in BOOLEAN, added \in BOOLEAN :
        LET id == IF created THEN seq_saved_searches + 1 ELSE CreateFailed
        IN  /\ created => seq_saved_searches < MaxSearches
            /\ saved_search_id' = id
            /\ saved_searches' =
                 IF created THEN saved_searches \cup {NewSavedSearchRow(GuiOptions, name)}
                 ELSE saved_searches
            /\ seq_saved_searches' = IF created THEN id ELSE seq_saved_searches
            /\ IF Truthy(id)
               THEN /\ saved_search_items' =
                         IF all_items # <<>> /\ added
                         THEN InsertOrIgnoreAll(saved_search_items, id, all_items)
                         ELSE saved_search_items
                    /\ messagebox' = IF all_items # <<>> THEN "saved with items"
                                     ELSE "saved without items"
                    /\ last' = IF all_items # <<>>
                               THEN Call("add_saved_search_items", id, Len(all_items),
                                         IF added THEN Len(all_items) ELSE 0)
                               ELSE Call("create_saved_search", id, 0, id)
               ELSE /\ saved_search_items' = saved_search_items
                    /\ messagebox' = "save failed"
                    /\ last' = Call("create_saved_search", id, 0, id)
            /\ UNCHANGED <<new_items, seq_new_items, foreign_keys, scraper, pollVars,
                           running, loopVars, sinkVars, poolVars, cacheVars>>

\* ------------------------------------------------------ the scraper command

\* What one run of test_scraper.py yields: its exit code and the listings its
\* scrapers found (which it stores in search_results)
ScraperResponses == [returncode : {0, 1}, scraped : Batches]

EmptyBytes == [kind |-> "empty"]
\* stdout_text = None
NoText == [kind |-> "none"]
PlainText == [kind |-> "text"]

\* stdout of test_scraper.py: all its own prints go to stderr; insert_items
\* prints its statistics ("Search Results: ...") to stdout when it is given items
ScraperStdout(resp) ==
    IF resp.scraped = <<>> THEN EmptyBytes ELSE PlainText

\* process.stdout.decode(enc) over utf-8, shift_jis, cp932: None for no bytes
\* or bytes no encoding accepts
Decode(bytes) ==
    IF bytes.kind \in {"empty", "undecodable"} THEN NoText ELSE bytes

\* json.loads(stdout_text): JSONDecodeError unless the text is JSON
JsonLoadsText(text) ==
    IF text.kind = "json" THEN [ok |-> TRUE, value |-> text.value]
    ELSE [ok |-> FALSE, value |-> NULL]

\* ------------------------------------------------------------ poll cycle

\* an entry of active_searches the cycle is meant to poll: enabled, with
\* keywords and sites in its stored options
Pollable(search) ==
    /\ search.notifications_enabled
    /\ search.options.keywords # <<>>
    /\ search.options.sites # <<>>

\* options_data.get(key, [])
OptionGet(options_data, key) ==
    IF key \in DOMAIN options_data THEN options_data[key] ELSE <<>>

Outcome(inv, rows, added, seen) ==
    [invoked |-> inv, rows |-> rows, added |-> added, seen |-> seen]

\* Body of the for loop of _run_saved_searches for one entry of
\* active_searches, given the scraper's answer should it be run:
\*   invoked: subprocess.run was called;  rows: new_items afterwards;
\*   added: items_added_count summed into the cycle total;
\*   seen: the item list parsed from the scraper, NULL when none was
ProcessSearch(search, resp, at) ==
    IF "options_json" \notin DOMAIN search
    THEN Outcome(FALSE, new_items, 0, NULL)                \* "Skipping."
    ELSE IF search.options_json = EmptyBytes
    THEN Outcome(FALSE, new_items, 0, NULL)
    ELSE
      LET options_data == json_loads(search.options_json)
          keywords == OptionGet(options_data, "keywords")
          sites    == OptionGet(options_data, "sites")
      IN
      IF keywords = <<>> \/ sites = <<>>
      THEN Outcome(FALSE, new_items, 0, NULL)              \* "missing keywords or sites"
      ELSE
        \* process = subprocess.run(cmd, capture_output=True)
        LET stdout_text == Decode(ScraperStdout(resp))
        IN
        IF resp.returncode # 0
        THEN Outcome(TRUE, new_items, 0, NULL)             \* continue
        ELSE IF stdout_text = NoText
        THEN Outcome(TRUE, new_items, 0, NULL)             \* "No decoded output"
        ELSE
          LET parsed == JsonLoadsText(stdout_text)
          IN
          IF ~parsed.ok
          THEN Outcome(TRUE, new_items, 0, NULL)           \* JSONDecodeError logged
          ELSE IF parsed.value \notin Seq(Listings)
          THEN Outcome(TRUE, new_items, 0, NULL)           \* not a JSON list
          ELSE IF parsed.value = <<>>
          THEN Outcome(TRUE, new_items, 0, parsed.value)
          ELSE LET r == add_new_items(search.id, parsed.value, at)
               IN  Outcome(TRUE, r.rows, r.ret, parsed.value)

\* a list of searches taken whole
UnfilteredSearches(all_saved_searches) == all_saved_searches

\* line 84: [s for s in all_saved_searches if s.get('notifications_enabled')]
ActiveSearches(all_saved_searches) ==
    SelectSeq(all_saved_searches, LAMBDA s : s.notifications_enabled)

\* lines 83-90 and what they do to the store and the sink (nothing)
ListActiveSearches ==
    /\ pc = "idle"
    /\ LET on == ActiveSearches(get_saved_searches)
       IN  /\ active' = on
           /\ pc' = IF on = <<>> THEN "idle" ELSE "loop"
    /\ idx' = 1
    /\ invoked' = [sid \in SearchIds |-> 0]
    /\ total' = 0
    /\ notified' = 0
    /\ due' = 0
    /\ stop_idx' = 0
    /\ UNCHANGED <<storeVars, last, scraper, prev, sinkVars, otherVars>>

\* _run_saved_searches up to the for loop: get_saved_searches(), the filter on
\* notifications_enabled, the early return when nothing is active
CycleStart ==
    /\ running
    /\ ListActiveSearches
    /\ UNCHANGED <<running, loopVars>>

\* one iteration of the for loop and what it does to the store and the sink
ForSearch ==
    /\ pc = "loop"
    /\ idx <= Len(active)
    /\ \E at \in FoundAtChoices(new_items) :
         LET search == active[idx]
             o == ProcessSearch(search, scraper, at)
         IN  /\ new_items' = o.rows
             /\ seq_new_items' = seq_new_items + (Len(o.rows) - Len(new_items))
             /\ invoked' = [invoked EXCEPT ![search.id] = @ + (IF o.invoked THEN 1 ELSE 0)]
             /\ total' = total + o.added
             /\ prev' = IF o.seen = NULL THEN prev ELSE [prev EXCEPT ![search.id] = o.seen]
             /\ due' = due + (IF Pollable(search) /\ scraper.returncode = 0 THEN 1 ELSE 0)
    /\ idx' = idx + 1
    /\ pc' = IF idx = Len(active) THEN "idle" ELSE "loop"
    /\ UNCHANGED <<saved_searches, seq_saved_searches, saved_search_items,
                   foreign_keys, last, active, scraper, notified, stop_idx,
                   sinkVars, otherVars>>

\* one iteration of the for loop; after the last one the cycle logs its total
\* and returns
ProcessNext ==
    /\ ForSearch
    /\ UNCHANGED <<running, loopVars>>

\* ------------------------------------------------- the notification sink

\* entries of search_results: dicts with search_name, items_added and
\* current_total, and a value that is no dict
NotADict == [kind |-> "not a dict"]
ResultDicts == [search_name : {"X", "Y"}, items_added : {0, 3}, current_total : {5, 10}]
SearchResultsInputs ==
    UNION {[1..n -> ResultDicts \cup {NotADict}] : n \in 0..MaxResults}
TotalInputs == {0, 10, 15}

NothingSent == [kind |-> "none"]

\* result.get(key, default)
DictGet(result, key, default) ==
    IF key \in DOMAIN result THEN result[key] ELSE default

\* a message with a part only for the entries that added items
MessagePartsAddedOnly(results, total_items) ==
    LET added == SelectSeq(results, LAMBDA r : DictGet(r, "items_added", 0) > 0)
    IN  [i \in 1..Len(added) |->
            [part |-> "search",
             search_name |-> DictGet(added[i], "search_name", "Unknown Search"),
             items_added |-> DictGet(added[i], "items_added", 0),
             current_total |-> DictGet(added[i], "current_total", 0)]]
        \o <<[part |-> "total", total_new_items |-> total_items]>>

\* message_parts of lines 27-39: one part per entry of search_results with its
\* name and two counts, then the part with total_new_items; the message is
\* the parts joined by newlines
MessageParts(results, total_items) ==
    [i \in 1..Len(results) |->
        [part |-> "search",
         search_name |-> DictGet(results[i], "search_name", "Unknown Search"),
         items_added |-> DictGet(results[i], "items_added", 0),
         current_total |-> DictGet(results[i], "current_total", 0)]]
    \o <<[part |-> "total", total_new_items |-> total_items]>>

\* the try block of lines 22-53: whether it raised, and what notification.notify
\* was handed. result.get on a value that is no dict raises AttributeError
\* before any notification; the backend may raise in notify
TryNotify(results, total_items, works) ==
    IF \E i \in 1..Len(results) : results[i] = NotADict
    THEN [raised |-> TRUE, sent |-> NothingSent]
    ELSE IF works # "ok"
    THEN [raised |-> TRUE, sent |-> NothingSent]
    ELSE [raised |-> FALSE,
          sent |-> [kind |-> "notification",
                    title |-> "Market Search Tool",
                    message |-> MessageParts(results, total_items)]]

\* a function body whose exceptions leave the function
ExceptionPropagates(body) ==
    [ret |-> IF body.raised THEN "raised" ELSE "returned",
     sent |-> body.sent,
     logged |-> IF body.raised THEN "none" ELSE "info"]

\* except Exception as e: logger.error(...) of lines 55-56
ExceptException(body) ==
    [ret |-> "returned",
     sent |-> body.sent,
     logged |-> IF body.raised THEN "error" ELSE "info"]

notify_scraper_results(results, total_items, works) ==
    ExceptException(TryNotify(results, total_items, works))

\* one call notify_scraper_results(search_results, total_new_items)
NotifyScraperResults ==
    /\ notify_ret = "none"
    /\ LET r == notify_scraper_results(search_results, total_new_items, backend)
       IN  /\ notify_ret' = r.ret
           /\ sent' = r.sent
           /\ logged' = r.logged
    /\ UNCHANGED <<storeVars, last, scraper, pollVars, running, loopVars,
                   search_results, total_new_items, backend, otherVars>>

\* ------------------------------------------------- the connection pool

\* ConnectionPool.__init__(db_path, max_connections = 5)
max_connections == 5

\* the thread that imports core.database and so constructs the module's db
MainThread == 1

\* what get_nowait() on the empty queue ends in: queue.Empty is raised, and
\* "except Queue.Empty" looks the name Empty up on the class queue.Queue
QueueEmptyLookup == [raised |-> "AttributeError"]

\* ConnectionPool.get_connection called by thread t: the thread's own
\* connection when it has one; else one taken from the queue and kept in
\* thread_local; else the exception of the except line
get_connection(t) ==
    IF thread_local[t]
    THEN [ret |-> "connection", connections |-> connections,
          thread_local |-> thread_local]
    ELSE IF connections > 0
    THEN [ret |-> "connection", connections |-> connections - 1,
          thread_local |-> [thread_local EXCEPT ![t] = TRUE]]
    ELSE [ret |-> QueueEmptyLookup.raised, connections |-> connections,
          thread_local |-> thread_local]

\* ConnectionPool.release_connection(conn) called by thread t with the
\* connection get_connection gave it: that is the thread-local one, so the
\* method returns at once and the queue stays as it is
release_connection(t) ==
    IF thread_local[t]
    THEN connections
    ELSE IF connections < max_connections THEN connections + 1 ELSE connections

\* a storage operation of thread t starts: conn = self._get_connection()
BeginOperation(t) ==
    /\ opc[t] \in {"out", "raised"}
    /\ LET r == get_connection(t)
       IN  /\ connections' = r.connections
           /\ thread_local' = r.thread_local
           /\ opc' = [opc EXCEPT ![t] = IF r.ret = "connection" THEN "op" ELSE "raised"]
    /\ UNCHANGED <<storeVars, last, scraper, pollVars, running, loopVars, sinkVars,
                   guiVars, cacheVars>>

\* the operation ends: self._release_connection(conn) in its finally block
EndOperation(t) ==
    /\ opc[t] = "op"
    /\ connections' = release_connection(t)
    /\ opc' = [opc EXCEPT ![t] = "out"]
    /\ UNCHANGED <<storeVars, last, scraper, pollVars, running, loopVars, sinkVars,
                   thread_local, guiVars, cacheVars>>

\* ------------------------------------------- the poll loop and its threads

\* self.search_interval, and the two sleeps of _run_periodic_tasks, in seconds
search_interval == 300
SleepAfterCheck == 1
SleepOnError == 5

Out == [at |-> "out", t |-> 0]

\* self.last_search_time = None: no time of the clock
Never == -1

\* start(), line 38: "if not self.running" found true (found false, start()
\* returns with nothing changed); pool holds the threads that can be created
StartIfNotRunning(c, pool) ==
    /\ cpc[c] = Out
    /\ ~running
    /\ \E t \in pool : tpc[t] = "unborn"
    /\ cpc' = [cpc EXCEPT ![c] = [at |-> "start", t |-> 0]]
    /\ UNCHANGED <<storeVars, last, scraper, pollVars, sinkVars, otherVars, running, thread,
                   tpc, now, last_search_time, current_time, started>>

\* start(), lines 39-42: self.running = True, self.thread = Thread(...),
\* self.thread.start()
StartThread(c, pool) ==
    /\ cpc[c].at = "start"
    /\ \E t \in pool :
         /\ tpc[t] = "unborn"
         /\ \A u \in pool : tpc[u] = "unborn" => t <= u
         /\ thread' = t
         /\ tpc' = [tpc EXCEPT ![t] = "while"]
    /\ running' = TRUE
    /\ cpc' = [cpc EXCEPT ![c] = Out]
    /\ UNCHANGED <<storeVars, last, scraper, pollVars, sinkVars, otherVars, now,
                   last_search_time, current_time, started>>

\* stop(), lines 48-50: self.running = False; with a thread, the caller goes
\* on to join it
StopSetFlag(c) ==
    /\ cpc[c] = Out
    /\ running' = FALSE
    /\ cpc' = [cpc EXCEPT ![c] = IF thread # 0 THEN [at |-> "join", t |-> thread]
                                  ELSE Out]
    /\ UNCHANGED <<storeVars, last, scraper, pollVars, sinkVars, otherVars, thread, tpc,
                   now, last_search_time, current_time, started>>

\* stop(), line 50: self.thread.join() returns when that thread has ended
StopJoin(c) ==
    /\ cpc[c].at = "join"
    /\ tpc[cpc[c].t] = "dead"
    /\ cpc' = [cpc EXCEPT ![c] = Out]
    /\ UNCHANGED <<storeVars, last, scraper, pollVars, sinkVars, otherVars, running, thread,
                   tpc, now, last_search_time, current_time, started>>

\* _run_periodic_tasks, lines 55-65: the while test, current_time, the test of
\* the interval, and the entry into _run_saved_searches or the way to the sleep
PeriodicTasksWhile(t) ==
    /\ tpc[t] = "while"
    /\ IF ~running
       THEN /\ tpc' = [tpc EXCEPT ![t] = "dead"]
            /\ UNCHANGED <<current_time, started>>
       ELSE /\ current_time' = [current_time EXCEPT ![t] = now]
            /\ IF last_search_time = Never \/ now - last_search_time >= search_interval
               THEN /\ tpc' = [tpc EXCEPT ![t] = "cycle"]
                    /\ started' = [started EXCEPT ![t] = now]
               ELSE /\ tpc' = [tpc EXCEPT ![t] = "sleep"]
                    /\ UNCHANGED started
    /\ UNCHANGED <<storeVars, last, scraper, pollVars, sinkVars, otherVars, running, thread,
                   cpc, now, last_search_time>>

\* _run_saved_searches returns: lines 66-74, self.last_search_time = current_time
RunSavedSearchesReturns(t) ==
    /\ tpc[t] = "cycle"
    /\ last_search_time' = current_time[t]
    /\ tpc' = [tpc EXCEPT ![t] = "sleep"]
    /\ UNCHANGED <<storeVars, last, scraper, pollVars, sinkVars, otherVars, running, thread,
                   cpc, now, current_time, started>>

\* an exception that ends the thread's target function
RunSavedSearchesRaisesUncaught(t) ==
    /\ tpc[t] = "cycle"
    /\ tpc' = [tpc EXCEPT ![t] = "dead"]
    /\ UNCHANGED <<storeVars, last, scraper, pollVars, sinkVars, otherVars, running, thread,
                   cpc, now, last_search_time, current_time, started>>

\* _run_saved_searches raises: get_saved_searches() at line 83 stands outside
\* every try of the method, so an sqlite3 error of the read (a locked
\* database file) reaches the except of lines 76-78
RunSavedSearchesRaises(t) ==
    /\ tpc[t] = "cycle"
    /\ tpc' = [tpc EXCEPT ![t] = "backoff"]
    /\ UNCHANGED <<storeVars, last, scraper, pollVars, sinkVars, otherVars, running, thread,
                   cpc, now, last_search_time, current_time, started>>

\* _run_saved_searches as the poll-loop thread runs it, lines 83-90: when no
\* search is active the call returns at line 88 and line 66 sets
\* last_search_time; otherwise the thread enters the for loop
RunSavedSearchesBegin(t) ==
    /\ tpc[t] = "cycle"
    /\ ListActiveSearches
    /\ IF pc' = "idle"
       THEN /\ last_search_time' = current_time[t]
            /\ tpc' = [tpc EXCEPT ![t] = "sleep"]
       ELSE /\ tpc' = [tpc EXCEPT ![t] = "for"]
            /\ UNCHANGED last_search_time
    /\ UNCHANGED <<running, thread, cpc, now, current_time, started>>

\* the for loop as the poll-loop thread runs it; after the last entry the call
\* returns and line 66 sets last_search_time
RunSavedSearchesFor(t) ==
    /\ tpc[t] = "for"
    /\ ForSearch
    /\ IF pc' = "idle"
       THEN /\ last_search_time' = current_time[t]
            /\ tpc' = [tpc EXCEPT ![t] = "sleep"]
       ELSE UNCHANGED <<tpc, last_search_time>>
    /\ UNCHANGED <<running, thread, cpc, now, current_time, started>>

\* time.sleep(1) of line 74, time.sleep(5) of line 78
TimeSleep(t, until) ==
    /\ tpc[t] \in {"sleep", "backoff"}
    /\ LET d == IF tpc[t] = "sleep" THEN SleepAfterCheck ELSE SleepOnError
       IN  /\ now + d <= until
           /\ now' = now + d
    /\ tpc' = [tpc EXCEPT ![t] = "while"]
    /\ UNCHANGED <<storeVars, last, scraper, pollVars, sinkVars, otherVars, running, thread,
                   cpc, last_search_time, current_time, started>>

\* start() of the one thread that drives the task manager: nothing when
\* running is set; the thread it creates enters _run_periodic_tasks. A stop()
\* before it has returned from its join, so no cycle is in progress
Start ==
    /\ ~running
    /\ pc = "idle"
    /\ running' = TRUE
    /\ UNCHANGED <<storeVars, last, scraper, pc, active, idx, invoked, total, prev,
                   notified, due, stop_idx, loopVars, sinkVars, otherVars>>

\* stop(): self.running = False, then the join, which returns once the cycle
\* in progress has run to its end and the while loop has seen the flag
Stop ==
    /\ running
    /\ running' = FALSE
    /\ stop_idx' = IF pc = "loop" THEN idx ELSE 0
    /\ UNCHANGED <<storeVars, last, scraper, pc, active, idx, invoked, total, prev,
                   notified, due, loopVars, sinkVars, otherVars>>

\* the marketplaces and the scraper's environment change between runs
ScraperAnswers ==
    /\ \E resp \in ScraperResponses : scraper' = resp
    /\ scraper' # scraper
    /\ UNCHANGED <<storeVars, last, cycleVars>>

\* ----------------------------------------------------------- specifications

\* BackgroundTaskManager.__init__: no thread, no last_search_time
LoopIdle ==
    /\ thread = 0
    /\ tpc = [t \in Threads |-> "unborn"]
    /\ cpc = [c \in Callers |-> Out]
    /\ now = 0
    /\ last_search_time = Never
    /\ current_time = [t \in Threads |-> Never]
    /\ started = [t \in Threads |-> Never]

\* notify_scraper_results not called
SinkIdle ==
    /\ search_results = <<>>
    /\ total_new_items = 0
    /\ backend = "ok"
    /\ sent = NothingSent
    /\ notify_ret = "none"
    /\ logged = "none"

\* DatabaseManager.__init__ has run in the main thread: _create_tables took
\* one connection of the pool, which the main thread keeps
PoolIdle ==
    /\ connections = max_connections - 1
    /\ thread_local = [t \in DbThreads |-> t = MainThread]
    /\ opc = [t \in DbThreads |-> "out"]

\* save_current_search has not been called
GuiIdle ==
    /\ saved_search_id = 0
    /\ messagebox = "none"

\* ImageCache.__init__ on a new cache_dir
CacheIdle ==
    /\ cache_files = <<>>
    /\ total_size = 0
    /\ cleanup_log = "none"

OthersIdle == PoolIdle /\ GuiIdle /\ CacheIdle

Init ==
    /\ saved_searches = {}
    /\ seq_saved_searches = 0
    /\ saved_search_items = {}
    /\ new_items = <<>>
    /\ seq_new_items = 0
    /\ foreign_keys = FALSE
    /\ last = Call("none", 0, 0, NULL)
    /\ pc = "idle"
    /\ active = <<>>
    /\ idx = 1
    /\ invoked = [sid \in SearchIds |-> 0]
    /\ total = 0
    /\ scraper \in ScraperResponses
    /\ prev = [sid \in SearchIds |-> NULL]
    /\ running = FALSE
    /\ notified = 0
    /\ due = 0
    /\ stop_idx = 0
    /\ LoopIdle
    /\ SinkIdle
    /\ OthersIdle

\* the poll thread next to the GUI's saved-search operations
Next ==
    \/ Start
    \/ Stop
    \/ CycleStart
    \/ ProcessNext
    \/ ScraperAnswers
    \/ \E options \in OptionsInputs : CreateSavedSearch(options)
    \/ UpdateSavedSearchNotifications
    \/ DeleteSavedSearch

Spec == Init /\ [][Next]_vars

\* the store's baseline and feed operations called in any order
StoreNext ==
    \/ CreateSavedSearch(GuiOptions)
    \/ AddSavedSearchItems
    \/ DeleteSavedSearch
    \/ AddNewItems
    \/ GetNewItems
    \/ ClearAllTables

StoreInit ==
    /\ Init
    /\ scraper = [returncode |-> 0, scraped |-> <<>>]

StoreSpec == StoreInit /\ [][StoreNext]_vars

\* the baseline written by add_saved_search_items, with item lists that hold
\* duplicates and items without a price
BaselineNext ==
    \/ CreateSavedSearch(GuiOptions)
    \/ AddSavedSearchItemsFrom(BaselineBatches)
    \/ DeleteSavedSearch

BaselineSpec == StoreInit /\ [][BaselineNext]_vars

\* notify_scraper_results called once with any list and total, the backend
\* working or not
NotifyInit ==
    /\ saved_searches = {}
    /\ seq_saved_searches = 0
    /\ saved_search_items = {}
    /\ new_items = <<>>
    /\ seq_new_items = 0
    /\ foreign_keys = FALSE
    /\ last = Call("none", 0, 0, NULL)
    /\ pc = "idle"
    /\ active = <<>>
    /\ idx = 1
    /\ invoked = [sid \in SearchIds |-> 0]
    /\ total = 0
    /\ scraper = [returncode |-> 0, scraped |-> <<>>]
    /\ prev = [sid \in SearchIds |-> NULL]
    /\ running = FALSE
    /\ notified = 0
    /\ due = 0
    /\ stop_idx = 0
    /\ LoopIdle
    /\ search_results \in SearchResultsInputs
    /\ total_new_items \in TotalInputs
    /\ backend \in {"ok", "raises"}
    /\ sent = NothingSent
    /\ notify_ret = "none"
    /\ logged = "none"
    /\ OthersIdle

NotifyNext == NotifyScraperResults

NotifySpec == NotifyInit /\ [][NotifyNext]_vars

\* threads performing storage operations on the module's one DatabaseManager
PoolNext ==
    \/ \E t \in DbThreads : BeginOperation(t)
    \/ \E t \in DbThreads : EndOperation(t)

PoolSpec == StoreInit /\ [][PoolNext]_vars

\* one execution of the poll loop: start() and stop() called from one thread
\* and the poll-loop thread it creates
LoopNext ==
    \/ StartIfNotRunning(1, {1})
    \/ StartThread(1, {1})
    \/ StopSetFlag(1)
    \/ StopJoin(1)
    \/ PeriodicTasksWhile(1)
    \/ RunSavedSearchesReturns(1)
    \/ RunSavedSearchesRaises(1)
    \/ TimeSleep(1, MaxTime)

LoopInit ==
    /\ Init
    /\ scraper = [returncode |-> 0, scraped |-> <<>>]

LoopSpec == LoopInit /\ [][LoopNext]_vars

\* start() and stop() called from several threads
ThreadsNext ==
    \/ \E c \in Callers : StartIfNotRunning(c, Threads)
    \/ \E c \in Callers : StartThread(c, Threads)
    \/ \E c \in Callers : StopSetFlag(c)
    \/ \E c \in Callers : StopJoin(c)
    \/ \E t \in Threads : PeriodicTasksWhile(t)
    \/ \E t \in Threads : RunSavedSearchesReturns(t)
    \/ \E t \in Threads : RunSavedSearchesRaises(t)
    \/ \E t \in Threads : TimeSleep(t, MaxRaceTime)

ThreadsSpec == LoopInit /\ [][ThreadsNext]_vars

\* what goes on around one poll thread: start(), stop() and the saved-search
\* operations of the GUI
PollNext ==
    \/ Start
    \/ Stop
    \/ CycleStart
    \/ ProcessNext
    \/ CreateSavedSearch(GuiOptions)
    \/ UpdateSavedSearchNotifications

\* the scraper command exits 0 and prints the statistics of its one listing
PollInit ==
    /\ Init
    /\ scraper = [returncode |-> 0, scraped |-> <<Listing("t1", "u1")>>]

\* the poll thread under start() and stop() while searches are saved and
\* their notifications switched
PollSpec == PollInit /\ [][PollNext]_vars

\* images downloaded into the cache and removed from it
CacheNext ==
    \/ DownloadAndProcessImage
    \/ RemoveCachedImage

CacheSpec == StoreInit /\ [][CacheNext]_vars

\* the GUI saving, switching and deleting searches next to the poll thread
GuiNext ==
    \/ SaveCurrentSearch
    \/ UpdateSavedSearchNotifications
    \/ DeleteSavedSearch
    \/ Start
    \/ CycleStart
    \/ ProcessNext

GuiSpec == PollInit /\ [][GuiNext]_vars

\* the poll-loop thread running its cycles on a store that answers, while the
\* GUI saves searches and switches their notifications
TaskNext ==
    \/ StartIfNotRunning(1, {1})
    \/ StartThread(1, {1})
    \/ PeriodicTasksWhile(1)
    \/ RunSavedSearchesBegin(1)
    \/ RunSavedSearchesFor(1)
    \/ TimeSleep(1, MaxTime)
    \/ CreateSavedSearch(GuiOptions)
    \/ UpdateSavedSearchNotifications

TaskSpec == PollInit /\ [][TaskNext]_vars

\* the feed operations of the GUI over the tables as the database file holds
\* them when the program opens it (_create_tables keeps every stored row)
FeedNext ==
    \/ GetNewItems
    \/ GetNewItemsSite
    \/ MarkItemsAsViewed
    \/ AddNewItems
    \/ DeleteSavedSearch
    \/ ClearAllTables

FeedInit ==
    /\ saved_searches \in StoredSearches
    /\ seq_saved_searches = MaxSearches
    /\ saved_search_items = {}
    /\ new_items \in StoredFeeds
    /\ seq_new_items = Len(new_items)
    /\ foreign_keys = FALSE
    /\ last = Call("none", 0, 0, NULL)
    /\ pc = "idle"
    /\ active = <<>>
    /\ idx = 1
    /\ invoked = [sid \in SearchIds |-> 0]
    /\ total = 0
    /\ scraper = [returncode |-> 0, scraped |-> <<>>]
    /\ prev = [sid \in SearchIds |-> NULL]
    /\ running = FALSE
    /\ notified = 0
    /\ due = 0
    /\ stop_idx = 0
    /\ LoopIdle
    /\ SinkIdle
    /\ OthersIdle

FeedSpec == FeedInit /\ [][FeedNext]_vars

\* ------------------------------------------------------------------ claims

\* C1: when a polling cycle has ended, the scraper was invoked exactly once for
\* every enabled saved search whose options hold keywords and sites, and not
\* at all for any other saved search.
C1_ScraperOncePerEnabledSearch ==
    (pc = "idle" /\ active # <<>>) =>
        /\ \A i \in 1..Len(active) :
             invoked[active[i].id] = IF Pollable(active[i]) THEN 1 ELSE 0
        /\ \A sid \in SearchIds :
             (\A i \in 1..Len(active) : active[i].id # sid) => invoked[sid] = 0

\* diff(current, previous) by url, previous given as its set of urls
Diff(current, previousUrls) ==
    SelectSeq(current, LAMBDA c : c.url \notin previousUrls)

\* urls of the set a cycle diffs against: the last scrape of the search, or
\* its baseline items while it has never been scraped
PreviousUrls(sid) ==
    IF prev[sid] = NULL
    THEN {r.url : r \in {b \in saved_search_items : b.saved_search_id = sid}}
    ELSE {prev[sid][j].url : j \in 1..Len(prev[sid])}

\* C2: the step that processes a pollable saved search while the scraper
\* succeeds appends to the feed exactly the scraped listings whose url is not
\* in the previous scraped set, in scraped order, owned by that search.
C2_FeedIsDiffOfScrape ==
    [][(/\ pc = "loop"
        /\ idx' = idx + 1
        /\ Pollable(active[idx])
        /\ scraper.returncode = 0)
       => LET sid == active[idx].id
              fresh == Diff(scraper.scraped, PreviousUrls(sid))
              added == SubSeq(new_items', Len(new_items) + 1, Len(new_items'))
          IN  /\ Len(added) = Len(fresh)
              /\ \A k \in 1..Len(fresh) :
                   /\ added[k].url = fresh[k].url
                   /\ added[k].saved_search_id = sid]_vars

\* C6: add_new_items called with a non-empty list of well-formed listings has
\* inserted one feed row per listing, owned by the given search and unviewed,
\* and has returned the number of listings.
C6_AddNewItemsInsertsEachListing ==
    (last.op = "add_new_items" /\ last.n > 0) =>
        /\ last.ret = last.n
        /\ Len(new_items) >= last.n
        /\ \A k \in (Len(new_items) - last.n + 1)..Len(new_items) :
             /\ new_items[k].saved_search_id = last.sid
             /\ ~new_items[k].is_viewed

\* a feed row agrees with a baseline row of its saved search on
\* (title, price_value)
MatchesBaseline(row) ==
    \E b \in saved_search_items :
        /\ b.saved_search_id = row.saved_search_id
        /\ b.title = row.title
        /\ b.price_value = row.price_value

C9_DeleteCascades ==
    (last.op = "delete_saved_search" /\ last.ret = TRUE) =>
        /\ \A b \in saved_search_items : b.saved_search_id # last.sid
        /\ \A k \in 1..Len(new_items) : new_items[k].saved_search_id # last.sid

IsFeedOfSearch(entry, sid, limit) ==
    LET I == UnviewedOf(sid)
        n == Cardinality(I)
    IN  /\ Len(entry) = IF limit < n THEN limit ELSE n
        /\ \A k \in 1..Len(entry) : \E i \in I : new_items[i] = entry[k]
        /\ \A k, l \in 1..Len(entry) :
             /\ (k # l => entry[k].id # entry[l].id)
             /\ (k < l => entry[k].found_at >= entry[l].found_at)
        /\ \A i \in I :
             (\A k \in 1..Len(entry) : entry[k].id # new_items[i].id)
               => \A k \in 1..Len(entry) : entry[k].found_at >= new_items[i].found_at

\* C11: when get_new_items(limit) has returned, every saved search that owns an
\* unviewed feed row has an entry in the result that lists exactly its unviewed
\* rows, newest first, cut to limit, and every entry holds rows of one saved
\* search only, also when two saved searches carry the same name.
C11_GetNewItemsGroupsByOwner ==
    last.op = "get_new_items" =>
        /\ \A s \in saved_searches :
             UnviewedOf(s.id) # {} =>
                \E nm \in DOMAIN last.ret : IsFeedOfSearch(last.ret[nm], s.id, last.n)
        /\ \A nm \in DOMAIN last.ret :
             \A k, l \in 1..Len(last.ret[nm]) :
                last.ret[nm][k].saved_search_id = last.ret[nm][l].saved_search_id

\* C12: get_new_items called with a site filter has returned a result, not
\* raised, and the rows of the result are unviewed rows of that site; with a
\* limit no smaller than the feed they are all the unviewed rows of that site
\* owned by a saved search.
C12_SiteFilterReturnsRowsOfSite ==
    last.op = "get_new_items_site" =>
        /\ last.ret # OperationalError
        /\ \A row \in ReturnedItems(last.ret) :
             row.site = last.sid /\ ~row.is_viewed
        /\ last.n >= Len(new_items) =>
             \A s \in saved_searches : \A i \in UnviewedOfSite(s.id, last.sid) :
                new_items[i] \in ReturnedItems(last.ret)

C14_SinkOncePerCycleWithResults ==
    pc = "idle" => notified = IF due > 0 THEN 1 ELSE 0

C17_CycleStartsSpacedByInterval ==
    [][\A t \in Threads :
         (tpc[t] = "while" /\ tpc'[t] = "cycle" /\ started[t] # Never)
            => started'[t] - started[t] >= search_interval]_vars

\* C18: whatever the interleaving of start() and stop() calls, at most one
\* poll-loop thread is alive and at most one of them is inside
\* _run_saved_searches.
C18_OnePollThreadOneCycle ==
    /\ Cardinality({t \in Threads : tpc[t] \notin {"unborn", "dead"}}) <= 1
    /\ Cardinality({t \in Threads : tpc[t] = "cycle"}) <= 1

RECURSIVE SumOfTotals(_)
\* sum of current_total over the entries with items_added > 0
SumOfTotals(results) ==
    IF results = <<>> THEN 0
    ELSE (IF Head(results).items_added > 0 THEN Head(results).current_total ELSE 0)
         + SumOfTotals(Tail(results))

\* the parts of a message that name a search
SearchParts(message) == SelectSeq(message, LAMBDA p : p.part = "search")

\* C15 as stated: the total of a notification that was sent is the sum of
\* current_total over the entries with items_added > 0, and the message has a
\* part for exactly those entries.
C15_TotalAndLinesOfAddedOnly ==
    sent # NothingSent =>
        LET message == sent.message
            added == SelectSeq(search_results, LAMBDA r : r.items_added > 0)
        IN  /\ message[Len(message)].total_new_items = SumOfTotals(search_results)
            /\ Len(SearchParts(message)) = Len(added)
            /\ \A i \in 1..Len(added) :
                 SearchParts(message)[i].search_name = added[i].search_name

\* C15 amended: the total of a notification that was sent is the
\* total_new_items argument, and the message has one part for every entry of
\* search_results, in order, with its name, items_added and current_total,
\* whether items_added is 0 or not.
C15_TotalIsArgumentLinesForAll ==
    sent # NothingSent =>
        LET message == sent.message
        IN  /\ Len(message) = Len(search_results) + 1
            /\ message[Len(message)] =
                 [part |-> "total", total_new_items |-> total_new_items]
            /\ \A i \in 1..Len(search_results) :
                 /\ message[i].part = "search"
                 /\ message[i].search_name = search_results[i].search_name
                 /\ message[i].items_added = search_results[i].items_added
                 /\ message[i].current_total = search_results[i].current_total

\* a notification was sent for a list that holds an entry with items_added = 0
\* next to one with items_added > 0
C15_Witness ==
    /\ sent # NothingSent
    /\ \E i, j \in 1..Len(search_results) :
         search_results[i].items_added = 0 /\ search_results[j].items_added > 0

\* C16: notify_scraper_results returns to its caller for every input; when
\* the backend raises (or an entry is no dict) nothing is sent and the failure
\* is logged as an error.
C16_NotifyNeverRaises ==
    notify_ret # "none" =>
        /\ notify_ret = "returned"
        /\ (backend = "raises" => sent = NothingSent /\ logged = "error")

\* the call has returned although the backend raised on a well-formed list
C16_Witness ==
    /\ notify_ret = "returned"
    /\ backend = "raises"
    /\ search_results # <<>>
    /\ \A i \in 1..Len(search_results) : search_results[i] # NotADict

\* the test of lines 60-61 at the present time
CycleDue == last_search_time = Never \/ now - last_search_time >= search_interval

\* C21: a poll-loop thread ends only when running is false; a cycle that
\* raises leaves the thread in its backoff sleep with the cycle still due, and
\* the next pass of the while loop with running set enters a cycle again.
C21_LoopSurvivesException ==
    [][\A t \in Threads :
        /\ (tpc[t] # "dead" /\ tpc'[t] = "dead") => ~running
        /\ (tpc[t] = "cycle" /\ tpc'[t] \notin {"cycle", "sleep"})
              => (tpc'[t] = "backoff" /\ CycleDue')
        /\ tpc[t] = "backoff" => CycleDue
        /\ (tpc[t] = "while" /\ tpc'[t] # "while" /\ running /\ CycleDue)
              => tpc'[t] = "cycle"]_vars

\* the thread is in a cycle again, started right after the backoff sleep that
\* followed a cycle which raised
C21_Witness ==
    /\ running
    /\ tpc[1] = "cycle"
    /\ started[1] = SleepOnError
    /\ last_search_time = Never

\* no row of saved_searches has notifications_enabled set
NoneEnabled == \A s \in saved_searches : ~s.notifications_enabled

C24_ScrapedSetBecomesPrevious ==
    [][(/\ pc = "loop"
        /\ idx' = idx + 1
        /\ Pollable(active[idx])
        /\ scraper.returncode = 0)
       => LET sid == active[idx].id
          IN  /\ prev'[sid] # NULL
              /\ prev'[sid] = scraper.scraped]_vars

\* C25: no storage operation of any thread ends in get_connection raising.
C25_GetConnectionServesEveryThread ==
    \A t \in DbThreads : opc[t] # "raised"

\* C26: a call of add_saved_search_items returns the number of rows the call
\* added to the baseline.
C26_ReturnsNumberAdded ==
    [][last'.op = "add_saved_search_items" =>
          last'.ret = Cardinality(saved_search_items') - Cardinality(saved_search_items)]_vars

\* C27: no two baseline rows of one saved search agree on (title, price_value),
\* a missing price_value included.
C27_BaselineHasNoDuplicates ==
    \A a, b \in saved_search_items :
        (/\ a # b
         /\ a.saved_search_id = b.saved_search_id
         /\ a.title = b.title) => a.price_value # b.price_value

\* C28: every baseline row and every feed row names a saved search that is in
\* saved_searches.
C28_ItemsReferenceSavedSearches ==
    /\ \A r \in saved_search_items :
         \E s \in saved_searches : s.id = r.saved_search_id
    /\ \A i \in 1..Len(new_items) :
         \E s \in saved_searches : s.id = new_items[i].saved_search_id

\* C29: when create_saved_search returned -1, save_current_search shows its
\* failure message and no baseline row was stored under that id.
C29_FailedCreateIsReportedAsFailure ==
    saved_search_id = CreateFailed =>
        /\ messagebox = "save failed"
        /\ \A r \in saved_search_items : r.saved_search_id # CreateFailed

\* C30: the cached files never total more than max_size_bytes once a download
\* has run its cleanup, and a cleanup that found the total above max_size_bytes
\* has brought it down to at most 80% of max_size_bytes.
C30_CacheStaysWithinMaximum ==
    /\ SumOfSizes(cache_files) <= max_size_bytes
    /\ total_size > max_size_bytes =>
          10 * SumOfSizes(cache_files) <= 8 * max_size_bytes

====
